---- MODULE Spec2Model ----
(***************************************************************************)
(* cpu-power-manager: the hardware accessor (backend/cpu.rs, CpuManager)   *)
(* and the profile policy (backend/profile.rs, Profile) over the cpufreq   *)
(* pseudo-filesystem.                                                      *)
(*                                                                         *)
(* The pseudo-filesystem is a record of files (sysfs).  Every CpuManager   *)
(* method is an operator from the filesystem before the call to an outcome *)
(* [res, fs, writes]: the Result it returns, the filesystem after it and   *)
(* the file writes it made, in order.  Every action is one call.           *)
(***************************************************************************)
EXTENDS Integers, Sequences, FiniteSets, TLC

VARIABLES
    sysfs,            \* the files under /sys/devices/system/cpu
    driver,           \* CpuManager.driver, fixed at construction
    is_root,          \* nix::unistd::Uid::effective().is_root()
    overflow_checks,  \* the build: TRUE panics on u32 overflow, FALSE wraps
    faulty,           \* files on which fs::read_to_string / fs::write fail
    profiles,         \* ProfileManager.profiles
    threads,          \* the apply calls in progress, by caller
    before,           \* sysfs (for a ProfileManager method: profiles) as
                      \* the last call found it
    last,             \* the last call: [op, args, res, val, writes]
    calls             \* calls made, where a specification bounds them

vars ==
    <<sysfs, driver, is_root, overflow_checks, faulty, profiles, threads,
      before, last, calls>>

(***************************************************************************)
(* Bounds and domains                                                      *)
(***************************************************************************)
NumCores == 3
core_count == NumCores
Cores == 0 .. (core_count - 1)

CpuDriver == {"IntelPstate", "AmdPstate", "AcpiCpufreq", "Unknown"}
TurboMode == {"Always", "Auto", "Never"}

Governors ==
    {"performance", "powersave", "schedutil", "ondemand", "conservative",
     "userspace"}

Absent == "absent"      \* Path::exists() is false
None == <<>>            \* Option::None
Some(x) == <<x>>        \* Option::Some(x)
IsSome(o) == Len(o) = 1
Unwrap(o) == o[1]

(***************************************************************************)
(* Results (anyhow::Result<()>).  err names the bail! or I/O site that     *)
(* produced the error, ctx the .context() Profile::apply wrapped it in.    *)
(***************************************************************************)
Ok == [ok |-> TRUE, err |-> "none", ctx |-> "none"]
Err(e) == [ok |-> FALSE, err |-> e, ctx |-> "none"]
context(res, c) == IF res.ok THEN res ELSE [res EXCEPT !.ctx = c]

Out(res, fs, writes) == [res |-> res, fs |-> fs, writes |-> writes]
Ctx(out, c) == [out EXCEPT !.res = context(out.res, c)]

\* the rest of the body run although a failed
ThenRegardless(a, b) == Out(b.res, b.fs, a.writes \o b.writes)

\* a?; b: b is the rest of the body, run on the filesystem a left; when a
\* failed the body returns a's error and b is never run
Then(a, b) ==
    IF a.res.ok
    THEN Out(b.res, b.fs, a.writes \o b.writes)
    ELSE a

(***************************************************************************)
(* File access                                                             *)
(***************************************************************************)
File(kind, core) == <<kind, core>>

\* the files some machines lack
OptionalFiles ==
    {"no_turbo", "boost", "energy_performance_preference", "online"}

\* Path::new(&path).exists()
exists(fs, kind, core) ==
    /\ core \in DOMAIN fs[kind]
    /\ kind \in OptionalFiles => fs[kind][core] # Absent

fs_write(fs, kind, core, value) ==
    IF File(kind, core) \in faulty \/ ~exists(fs, kind, core)
    THEN Out(Err("Io"), fs, <<>>)
    ELSE Out(Ok, [fs EXCEPT ![kind][core] = value], << <<kind, core, value>> >>)

fs_read(fs, kind, core) ==
    IF File(kind, core) \in faulty \/ ~exists(fs, kind, core)
    THEN [res |-> Err("Io"), val |-> None]
    ELSE [res |-> Ok, val |-> Some(fs[kind][core])]

(***************************************************************************)
(* u32 arithmetic of freq_mhz * 1000.  2^32 = U32Div1000 * 1000 +          *)
(* U32Mod1000, so the wrapped product is computed without leaving the      *)
(* range of the model checker's integers.                                  *)
(***************************************************************************)
KHzPerMHz == 1000
U32Div1000 == 4294967
U32Mod1000 == 296

mul_overflows(freq_mhz) == freq_mhz > U32Div1000

wrapping_mul_khz(freq_mhz) ==
    LET a == freq_mhz \div U32Div1000
        b == freq_mhz % U32Div1000
        v == b * KHzPerMHz - a * U32Mod1000
    IN  IF v >= 0 THEN v ELSE v + U32Div1000 * KHzPerMHz + U32Mod1000

\* let freq_khz = freq_mhz * 1000;
to_khz(freq_mhz) ==
    IF mul_overflows(freq_mhz) /\ overflow_checks
    THEN [res |-> Err("Panic"), val |-> 0]
    ELSE [res |-> Ok, val |-> wrapping_mul_khz(freq_mhz)]

\* Ok(freq_khz / 1000)
to_mhz(freq_khz) == freq_khz \div KHzPerMHz

(***************************************************************************)
(* CpuManager                                                              *)
(***************************************************************************)
\* the privilege check left out
check_write_permission_skipped == Ok

check_write_permission ==
    IF ~is_root THEN Err("PermissionDenied") ELSE Ok

write_khz(fs, kind, core, freq_mhz) ==
    IF ~check_write_permission.ok
    THEN Out(check_write_permission, fs, <<>>)
    ELSE LET k == to_khz(freq_mhz)
         IN  IF ~k.res.ok
             THEN Out(k.res, fs, <<>>)
             ELSE fs_write(fs, kind, core, k.val)

read_mhz(fs, kind, core) ==
    LET r == fs_read(fs, kind, core)
    IN  IF r.res.ok
        THEN [res |-> Ok, val |-> Some(to_mhz(Unwrap(r.val)))]
        ELSE r

get_frequency(fs, core) == read_mhz(fs, "scaling_cur_freq", core)

\* the frequency written to the file get_frequency reads
set_frequency_cur_freq(fs, core, freq_mhz) ==
    write_khz(fs, "scaling_cur_freq", core, freq_mhz)

set_frequency(fs, core, freq_mhz) ==
    write_khz(fs, "scaling_setspeed", core, freq_mhz)

RECURSIVE set_frequency_from(_, _, _)
set_frequency_from(fs, core, freq_mhz) ==
    IF core >= core_count
    THEN Out(Ok, fs, <<>>)
    ELSE LET a == set_frequency(fs, core, freq_mhz)
         IN  Then(a, set_frequency_from(a.fs, core + 1, freq_mhz))

set_frequency_all(fs, freq_mhz) == set_frequency_from(fs, 0, freq_mhz)

get_scaling_min_freq(fs, core) == read_mhz(fs, "scaling_min_freq", core)
get_scaling_max_freq(fs, core) == read_mhz(fs, "scaling_max_freq", core)

set_scaling_min_freq(fs, core, freq_mhz) ==
    write_khz(fs, "scaling_min_freq", core, freq_mhz)

set_scaling_max_freq(fs, core, freq_mhz) ==
    write_khz(fs, "scaling_max_freq", core, freq_mhz)

RECURSIVE set_scaling_limits_from(_, _, _, _)
set_scaling_limits_from(fs, core, min_mhz, max_mhz) ==
    IF core >= core_count
    THEN Out(Ok, fs, <<>>)
    ELSE LET a == set_scaling_min_freq(fs, core, min_mhz)
             b == set_scaling_max_freq(a.fs, core, max_mhz)
         IN  Then(a, Then(b, set_scaling_limits_from(b.fs, core + 1,
                                                     min_mhz, max_mhz)))

set_scaling_limits_all(fs, min_mhz, max_mhz) ==
    set_scaling_limits_from(fs, 0, min_mhz, max_mhz)

get_hardware_min_freq(fs, core) == read_mhz(fs, "cpuinfo_min_freq", core)
get_hardware_max_freq(fs, core) == read_mhz(fs, "cpuinfo_max_freq", core)

get_governor(fs, core) == fs_read(fs, "scaling_governor", core)

get_available_governors(fs, core) ==
    fs_read(fs, "scaling_available_governors", core)

\* the governor written without a look at the available list
set_governor_unchecked(fs, core, governor) ==
    IF ~check_write_permission.ok
    THEN Out(check_write_permission, fs, <<>>)
    ELSE fs_write(fs, "scaling_governor", core, governor)

set_governor(fs, core, governor) ==
    IF ~check_write_permission.ok
    THEN Out(check_write_permission, fs, <<>>)
    ELSE LET available == get_available_governors(fs, core)
         IN  IF ~available.res.ok
             THEN Out(available.res, fs, <<>>)
             ELSE IF governor \notin Unwrap(available.val)
             THEN Out(Err("InvalidValue"), fs, <<>>)
             ELSE fs_write(fs, "scaling_governor", core, governor)

\* a core that fails is skipped and the remaining cores are still written
RECURSIVE set_governor_skipping(_, _, _)
set_governor_skipping(fs, core, governor) ==
    IF core >= core_count
    THEN Out(Ok, fs, <<>>)
    ELSE LET a == set_governor(fs, core, governor)
         IN  ThenRegardless(a, set_governor_skipping(a.fs, core + 1, governor))

RECURSIVE set_governor_from(_, _, _)
set_governor_from(fs, core, governor) ==
    IF core >= core_count
    THEN Out(Ok, fs, <<>>)
    ELSE LET a == set_governor(fs, core, governor)
         IN  Then(a, set_governor_from(a.fs, core + 1, governor))

set_governor_all(fs, governor) == set_governor_from(fs, 0, governor)

is_turbo_enabled(fs) ==
    CASE driver = "IntelPstate" ->
           LET r == fs_read(fs, "no_turbo", 0)
           IN  IF r.res.ok
               THEN [res |-> Ok, val |-> Some(Unwrap(r.val) = "0")]
               ELSE r
      [] driver = "AcpiCpufreq" ->
           IF exists(fs, "boost", 0)
           THEN LET r == fs_read(fs, "boost", 0)
                IN  IF r.res.ok
                    THEN [res |-> Ok, val |-> Some(Unwrap(r.val) = "1")]
                    ELSE r
           ELSE [res |-> Ok, val |-> Some(FALSE)]
      [] OTHER -> [res |-> Ok, val |-> Some(FALSE)]

set_turbo(fs, enable) ==
    IF ~check_write_permission.ok
    THEN Out(check_write_permission, fs, <<>>)
    ELSE CASE driver = "IntelPstate" ->
                fs_write(fs, "no_turbo", 0, IF enable THEN "0" ELSE "1")
           [] driver = "AcpiCpufreq" ->
                IF exists(fs, "boost", 0)
                THEN fs_write(fs, "boost", 0, IF enable THEN "1" ELSE "0")
                ELSE Out(Err("NotSupported"), fs, <<>>)
           [] OTHER -> Out(Err("NotSupported"), fs, <<>>)

set_epp_core(fs, core, epp) ==
    IF exists(fs, "energy_performance_preference", core)
    THEN fs_write(fs, "energy_performance_preference", core, epp)
    ELSE Out(Ok, fs, <<>>)

RECURSIVE set_epp_from(_, _, _)
set_epp_from(fs, core, epp) ==
    IF core >= core_count
    THEN Out(Ok, fs, <<>>)
    ELSE LET a == set_epp_core(fs, core, epp)
         IN  Then(a, set_epp_from(a.fs, core + 1, epp))

set_epp(fs, epp) ==
    IF driver # "IntelPstate"
    THEN Out(Err("NotSupported"), fs, <<>>)
    ELSE IF ~check_write_permission.ok
    THEN Out(check_write_permission, fs, <<>>)
    ELSE set_epp_from(fs, 0, epp)

get_epp(fs, core) ==
    IF exists(fs, "energy_performance_preference", core)
    THEN fs_read(fs, "energy_performance_preference", core)
    ELSE [res |-> Err("NotSupported"), val |-> None]

is_core_online(fs, core) ==
    IF core = 0
    THEN [res |-> Ok, val |-> Some(TRUE)]
    ELSE IF ~exists(fs, "online", core)
    THEN [res |-> Ok, val |-> Some(TRUE)]
    ELSE LET r == fs_read(fs, "online", core)
         IN  IF r.res.ok
             THEN [res |-> Ok, val |-> Some(Unwrap(r.val) = "1")]
             ELSE r

\* core 0 treated like every other core
set_core_online_any(fs, core, online) ==
    IF ~check_write_permission.ok
    THEN Out(check_write_permission, fs, <<>>)
    ELSE fs_write(fs, "online", core, IF online THEN "1" ELSE "0")

set_core_online(fs, core, online) ==
    IF core = 0
    THEN Out(Err("Precondition"), fs, <<>>)
    ELSE IF ~check_write_permission.ok
    THEN Out(check_write_permission, fs, <<>>)
    ELSE fs_write(fs, "online", core, IF online THEN "1" ELSE "0")

(***************************************************************************)
(* Profile                                                                 *)
(***************************************************************************)
performance ==
    [name |-> "Performance", governor |-> "performance", turbo |-> "Always",
     min_freq_mhz |-> None, max_freq_mhz |-> None,
     epp |-> Some("performance")]

balanced ==
    [name |-> "Balanced", governor |-> "powersave", turbo |-> "Auto",
     min_freq_mhz |-> None, max_freq_mhz |-> None,
     epp |-> Some("balance_performance")]

powersave ==
    [name |-> "Power Saver", governor |-> "powersave", turbo |-> "Never",
     min_freq_mhz |-> None, max_freq_mhz |-> Some(2400),
     epp |-> Some("power")]

silent ==
    [name |-> "Silent", governor |-> "powersave", turbo |-> "Never",
     min_freq_mhz |-> Some(800), max_freq_mhz |-> Some(2000),
     epp |-> Some("power")]

(***************************************************************************)
(* ProfileManager                                                          *)
(***************************************************************************)
ProfileManager_new == <<performance, balanced, powersave, silent>>

get_profiles(registry) == registry

\* self.profiles.iter().find(|p| p.name == name)
RECURSIVE find_from(_, _, _)
find_from(registry, i, name) ==
    IF i > Len(registry)
    THEN None
    ELSE IF registry[i].name = name
    THEN Some(registry[i])
    ELSE find_from(registry, i + 1, name)

get_profile(registry, name) == find_from(registry, 1, name)

\* self.profiles.push(profile)
add_profile(registry, profile) == Append(registry, profile)

\* only the first profile of that name removed
RECURSIVE remove_first(_, _)
remove_first(registry, name) ==
    IF registry = <<>>
    THEN <<>>
    ELSE IF Head(registry).name = name
    THEN Tail(registry)
    ELSE <<Head(registry)>> \o remove_first(Tail(registry), name)

\* self.profiles.retain(|p| p.name != name)
RECURSIVE retain_not_named(_, _)
retain_not_named(registry, name) ==
    IF registry = <<>>
    THEN <<>>
    ELSE IF Head(registry).name # name
    THEN <<Head(registry)>> \o retain_not_named(Tail(registry), name)
    ELSE retain_not_named(Tail(registry), name)

remove_profile(registry, name) == retain_not_named(registry, name)

(***************************************************************************)
(* Profile::select_best_governor                                           *)
(***************************************************************************)
Found(g) == [res |-> Ok, val |-> Some(g)]
NoGovernor == [res |-> Err("NoSuitableGovernor"), val |-> None]

RECURSIVE first_available(_, _)
first_available(ranking, available) ==
    IF ranking = <<>>
    THEN NoGovernor
    ELSE IF Head(ranking) \in available
    THEN Found(Head(ranking))
    ELSE first_available(Tail(ranking), available)

\* the Balanced ranking with its first two candidates exchanged
fallback_ranking_swapped(name) ==
    CASE name = "Performance" -> <<"performance", "powersave">>
      [] name = "Balanced" ->
           <<"ondemand", "schedutil", "powersave", "performance">>
      [] OTHER -> <<"powersave", "conservative", "ondemand">>

fallback_ranking(name) ==
    CASE name = "Performance" -> <<"performance", "powersave">>
      [] name = "Balanced" ->
           <<"schedutil", "ondemand", "powersave", "performance">>
      [] OTHER -> <<"powersave", "conservative", "ondemand">>

\* the ranking consulted without the test for the requested governor
select_by_ranking_only(p, available) ==
    first_available(fallback_ranking(p.name), available)

select_best_governor(p, available) ==
    IF p.governor \in available
    THEN Found(p.governor)
    ELSE first_available(fallback_ranking(p.name), available)

\* Auto left as the machine is: turbo is not touched
apply_turbo_auto_untouched(p, fs) ==
    CASE p.turbo = "Always" ->
           Ctx(set_turbo(fs, TRUE), "Failed to enable turbo")
      [] p.turbo = "Never" ->
           Ctx(set_turbo(fs, FALSE), "Failed to disable turbo")
      [] p.turbo = "Auto" ->
           Ctx(Out(check_write_permission, fs, <<>>),
               "Failed to set turbo to auto mode")

apply_turbo(p, fs) ==
    CASE p.turbo = "Always" ->
           Ctx(set_turbo(fs, TRUE), "Failed to enable turbo")
      [] p.turbo = "Never" ->
           Ctx(set_turbo(fs, FALSE), "Failed to disable turbo")
      [] p.turbo = "Auto" ->
           Ctx(set_turbo(fs, TRUE), "Failed to set turbo to auto mode")

\* for core in 0..core_count { set min hw_min; set max hw_max }
RECURSIVE reset_limits_from(_, _, _, _)
reset_limits_from(fs, core, hw_min, hw_max) ==
    IF core >= core_count
    THEN Out(Ok, fs, <<>>)
    ELSE LET a == Ctx(set_scaling_min_freq(fs, core, hw_min),
                      "Failed to reset min frequency")
             b == Ctx(set_scaling_max_freq(a.fs, core, hw_max),
                      "Failed to reset max frequency")
         IN  Then(a, Then(b, reset_limits_from(b.fs, core + 1, hw_min, hw_max)))

\* the reset left out and reported as done
apply_reset_skipped(fs) == Out(Ok, fs, <<>>)

apply_reset(fs) ==
    LET hw_min == get_hardware_min_freq(fs, 0)
        hw_max == get_hardware_max_freq(fs, 0)
    IN  IF ~hw_min.res.ok
        THEN Out(hw_min.res, fs, <<>>)
        ELSE IF ~hw_max.res.ok
        THEN Out(hw_max.res, fs, <<>>)
        ELSE reset_limits_from(fs, 0, Unwrap(hw_min.val), Unwrap(hw_max.val))

RECURSIVE profile_min_from(_, _, _)
profile_min_from(fs, core, min_freq) ==
    IF core >= core_count
    THEN Out(Ok, fs, <<>>)
    ELSE LET a == Ctx(set_scaling_min_freq(fs, core, min_freq),
                      "Failed to set min frequency")
         IN  Then(a, profile_min_from(a.fs, core + 1, min_freq))

apply_min(p, fs) ==
    IF IsSome(p.min_freq_mhz)
    THEN profile_min_from(fs, 0, Unwrap(p.min_freq_mhz))
    ELSE Out(Ok, fs, <<>>)

RECURSIVE profile_max_from(_, _, _)
profile_max_from(fs, core, max_freq) ==
    IF core >= core_count
    THEN Out(Ok, fs, <<>>)
    ELSE LET a == Ctx(set_scaling_max_freq(fs, core, max_freq),
                      "Failed to set max frequency")
         IN  Then(a, profile_max_from(a.fs, core + 1, max_freq))

apply_max(p, fs) ==
    IF IsSome(p.max_freq_mhz)
    THEN profile_max_from(fs, 0, Unwrap(p.max_freq_mhz))
    ELSE Out(Ok, fs, <<>>)

\* the reset left out: the limits the cores held stay where the profile
\* names none
apply_limits_without_reset(p, fs) ==
    LET s6a == apply_min(p, fs)
        s6b == apply_max(p, s6a.fs)
    IN  Then(s6a, s6b)

\* the reset made only for the bounds the profile does not name itself
apply_limits_reset_if_unbounded(p, fs) ==
    LET s5 == IF IsSome(p.min_freq_mhz) /\ IsSome(p.max_freq_mhz)
              THEN Out(Ok, fs, <<>>)
              ELSE apply_reset(fs)
        s6a == apply_min(p, s5.fs)
        s6b == apply_max(p, s6a.fs)
    IN  Then(s5, Then(s6a, s6b))

\* reset every core to the hardware limits, then the profile's own limits
apply_limits(p, fs) ==
    LET s5 == apply_reset(fs)
        s6a == apply_min(p, s5.fs)
        s6b == apply_max(p, s6a.fs)
    IN  Then(s5, Then(s6a, s6b))

\* the error of set_epp returned with ?
apply_epp_propagating(p, fs) ==
    IF IsSome(p.epp)
    THEN set_epp(fs, Unwrap(p.epp))
    ELSE Out(Ok, fs, <<>>)

\* if let Err(e) = cpu_manager.set_epp(epp) { log::warn!(..) }
apply_epp(p, fs) ==
    IF IsSome(p.epp)
    THEN LET r == set_epp(fs, Unwrap(p.epp))
         IN  Out(Ok, r.fs, r.writes)
    ELSE Out(Ok, fs, <<>>)

apply(p, fs) ==
    LET available_governors == get_available_governors(fs, 0)
        governor_to_use ==
            select_best_governor(p, Unwrap(available_governors.val))
        s3 == Ctx(set_governor_all(fs, Unwrap(governor_to_use.val)),
                  "Failed to set governor")
        s4 == apply_turbo(p, s3.fs)
        s56 == apply_limits(p, s4.fs)
        s7 == apply_epp(p, s56.fs)
    IN  IF ~available_governors.res.ok
        THEN Out(context(available_governors.res,
                         "Failed to get available governors"), fs, <<>>)
        ELSE IF ~governor_to_use.res.ok
        THEN Out(governor_to_use.res, fs, <<>>)
        ELSE Then(s3, Then(s4, Then(s56, s7)))

(***************************************************************************)
(* The machine the manager is constructed on                               *)
(***************************************************************************)
PerCoreFiles ==
    {"scaling_min_freq", "scaling_max_freq", "scaling_setspeed",
     "scaling_cur_freq", "scaling_governor", "scaling_available_governors",
     "cpuinfo_min_freq", "cpuinfo_max_freq",
     "energy_performance_preference", "online"}

Files ==
    {File(k, c) : k \in PerCoreFiles, c \in Cores}
        \cup {File("no_turbo", 0), File("boost", 0)}

\* scaling_available_governors as the kernel's drivers report it
GovernorSets ==
    {{"performance", "powersave"}, {"ondemand", "conservative"}, {"userspace"}}

\* every core reports the same governors, or one core differs from core 0
AvailableGovernors ==
    {f \in [Cores -> GovernorSets] :
        Cardinality({c \in Cores : f[c] # f[0]}) <= 1}

\* cores that have an energy_performance_preference file
EppCores == {Cores, {}, Cores \ {0}}

\* intel_pstate/no_turbo exists with the intel_pstate directory; cpufreq/boost
\* exists on some acpi-cpufreq kernels
BoostFiles(d) == IF d = "AcpiCpufreq" THEN {"1", Absent} ELSE {Absent}

\* cpuinfo_min_freq / cpuinfo_max_freq; on a hybrid part the cores after
\* core 0 report a lower maximum
HwMinKHz == 400000
HwMaxKHz == 3600000
HwMaxKHzSmallCore == 2800000

HwMax(hybrid, c) ==
    IF hybrid /\ c # 0 THEN HwMaxKHzSmallCore ELSE HwMaxKHz

\* the governor a core runs before any call: one of its list, or the
\* kernel's own where the list is empty
initial_governor(available) ==
    IF available = {} THEN "none" ELSE CHOOSE g \in available : TRUE

Machine(d, avail, epp_cores, boost, online0, hybrid) ==
    [scaling_min_freq |-> [c \in Cores |-> HwMinKHz],
     scaling_max_freq |-> [c \in Cores |-> HwMax(hybrid, c)],
     scaling_setspeed |-> [c \in Cores |-> HwMinKHz],
     scaling_cur_freq |-> [c \in Cores |-> HwMinKHz],
     cpuinfo_min_freq |-> [c \in Cores |-> HwMinKHz],
     cpuinfo_max_freq |-> [c \in Cores |-> HwMax(hybrid, c)],
     scaling_available_governors |-> avail,
     scaling_governor |-> [c \in Cores |-> initial_governor(avail[c])],
     energy_performance_preference |->
         [c \in Cores |-> IF c \in epp_cores THEN "default" ELSE Absent],
     online |-> [c \in Cores |-> IF c = 0 THEN online0 ELSE "1"],
     no_turbo |-> [g \in {0} |-> IF d = "IntelPstate" THEN "0" ELSE Absent],
     boost |-> [g \in {0} |-> boost]]

\* no apply is in progress
Callers == {1, 2}
NotCalled == [p |-> None, res |-> Ok, todo |-> <<>>, at |-> "idle"]
NoThreads == [t \in Callers |-> NotCalled]

NoCall ==
    [op |-> "new", args |-> <<>>, res |-> Ok, val |-> None, writes |-> <<>>]

\* at most one file fails
FaultSets(kinds) ==
    {{}} \cup {{f} : f \in {g \in Files : g[1] \in kinds}}

\* cfg: the sets the machine's features are drawn from
InitMachine(cfg) ==
    /\ driver \in cfg.drivers
    /\ is_root \in cfg.roots
    /\ overflow_checks \in cfg.builds
    /\ faulty \in FaultSets(cfg.faults)
    /\ \E avail \in cfg.governors, epp_cores \in cfg.epp,
          boost \in BoostFiles(driver), online0 \in cfg.online0,
          hybrid \in cfg.hybrid :
           sysfs = Machine(driver, avail, epp_cores, boost, online0, hybrid)
    /\ profiles = ProfileManager_new
    /\ threads = NoThreads
    /\ before = sysfs
    /\ last = NoCall
    /\ calls = 0

\* a method that returns Result<()>
Call(op, args, out) ==
    /\ sysfs' = out.fs
    /\ before' = sysfs
    /\ last' = [op |-> op, args |-> args, res |-> out.res, val |-> None,
                writes |-> out.writes]
    /\ UNCHANGED <<driver, is_root, overflow_checks, faulty, profiles, threads>>

\* a method that returns Result<T> and writes nothing
Query(op, args, r) ==
    /\ before' = sysfs
    /\ last' = [op |-> op, args |-> args, res |-> r.res, val |-> r.val,
                writes |-> <<>>]
    /\ UNCHANGED <<sysfs, driver, is_root, overflow_checks, faulty, profiles,
                   threads>>

\* the condition that made a file fail passes
Repair ==
    /\ faulty # {}
    /\ faulty' = {}
    /\ before' = sysfs
    /\ last' = [NoCall EXCEPT !.op = "repair"]
    /\ UNCHANGED <<sysfs, driver, is_root, overflow_checks, profiles, threads>>

\* a step of a specification that lets a run make MaxCalls calls, and of one
\* that lets it make any number
MaxCalls == 1

Counted(A) == calls < MaxCalls /\ A /\ calls' = calls + 1
Uncounted(A) == A /\ UNCHANGED calls

(***************************************************************************)
(* Profile::apply on the built-in profiles and a user-defined one          *)
(***************************************************************************)
custom ==
    [name |-> "Custom", governor |-> "schedutil", turbo |-> "Auto",
     min_freq_mhz |-> Some(1200), max_freq_mhz |-> None, epp |-> None]

Profiles == {performance, balanced, powersave, silent, custom}

ApplyFiles ==
    {"scaling_available_governors", "scaling_governor", "cpuinfo_min_freq",
     "cpuinfo_max_freq", "scaling_min_freq", "scaling_max_freq",
     "energy_performance_preference", "no_turbo", "boost"}

Apply(p) == Call("apply", <<p>>, apply(p, sysfs))

InitApply ==
    InitMachine([drivers |-> CpuDriver, roots |-> BOOLEAN,
                 builds |-> {FALSE}, faults |-> ApplyFiles,
                 governors |-> AvailableGovernors, epp |-> EppCores,
                 online0 |-> {Absent}, hybrid |-> BOOLEAN])

NextApply ==
    \/ \E p \in Profiles : Uncounted(Apply(p))
    \/ Uncounted(Repair)

SpecApply == InitApply /\ [][NextApply]_vars

(***************************************************************************)
(* Profile::select_best_governor on every available set, profile name and  *)
(* requested governor                                                      *)
(***************************************************************************)
ProfileNames == {"Performance", "Balanced", "Power Saver", "Silent", "Custom"}

SelectProfiles ==
    {[custom EXCEPT !.name = n, !.governor = g] :
        n \in ProfileNames, g \in Governors \cup {"interactive"}}

SelectBestGovernor(p) ==
    LET available == get_available_governors(sysfs, 0)
    IN  /\ available.res.ok
        /\ Query("select_best_governor", <<p, Unwrap(available.val)>>,
                 select_best_governor(p, Unwrap(available.val)))

InitSelect ==
    InitMachine([drivers |-> {"Unknown"}, roots |-> {TRUE},
                 builds |-> {FALSE}, faults |-> {},
                 governors |-> {[c \in Cores |-> s] : s \in SUBSET Governors},
                 epp |-> {{}}, online0 |-> {Absent}, hybrid |-> {FALSE}])

NextSelect == \E p \in SelectProfiles : Uncounted(SelectBestGovernor(p))

SpecSelect == InitSelect /\ [][NextSelect]_vars

(***************************************************************************)
(* C4: select_best_governor returns the profile's requested governor       *)
(* verbatim whenever it is in the available set, for every profile name    *)
(* and every available set, whatever the fallback ranking would pick.      *)
(***************************************************************************)
C4_RequestedGovernorVerbatim ==
    last.op = "select_best_governor" =>
        LET p == last.args[1]
            available == last.args[2]
        IN  p.governor \in available =>
                /\ last.res.ok
                /\ last.val = Some(p.governor)

\* Balanced requests powersave, {ondemand, powersave} is available: powersave
C4_Witness ==
    /\ last.op = "select_best_governor"
    /\ last.args[1].name = "Balanced"
    /\ last.args[1].governor = "powersave"
    /\ last.args[2] = {"ondemand", "powersave"}
    /\ last.val = Some("powersave")

(***************************************************************************)
(* C5: when the requested governor is not available, select_best_governor  *)
(* returns the first available governor of the ranking of the profile's    *)
(* name (Performance: performance, powersave; Balanced: schedutil,         *)
(* ondemand, powersave, performance; any other name: powersave,            *)
(* conservative, ondemand) and fails when none of them is available; so    *)
(* the result is never outside the ranking nor outside the available set.  *)
(***************************************************************************)
C5_Ranking(name) ==
    IF name = "Performance" THEN <<"performance", "powersave">>
    ELSE IF name = "Balanced"
    THEN <<"schedutil", "ondemand", "powersave", "performance">>
    ELSE <<"powersave", "conservative", "ondemand">>

C5_FallbackRanking ==
    last.op = "select_best_governor" =>
        LET p == last.args[1]
            available == last.args[2]
            ranking == C5_Ranking(p.name)
            hits == {i \in 1 .. Len(ranking) : ranking[i] \in available}
        IN  p.governor \notin available =>
                IF hits = {}
                THEN ~last.res.ok /\ last.val = None
                ELSE /\ last.res.ok
                     /\ \E i \in hits :
                           /\ \A j \in hits : i <= j
                           /\ last.val = Some(ranking[i])

\* Balanced, only performance available: the last candidate of the ranking
C5_Witness ==
    /\ last.op = "select_best_governor"
    /\ last.args[1].name = "Balanced"
    /\ last.args[1].governor = "powersave"
    /\ last.args[2] = {"performance"}
    /\ last.val = Some("performance")

(***************************************************************************)
(* Shared by the claims about Profile::apply                               *)
(***************************************************************************)
AppliedProfile == last.args[1]

IsPrefix(a, b) == Len(a) <= Len(b) /\ SubSeq(b, 1, Len(a)) = a

IsLimitWrite(w) == w[1] \in {"scaling_min_freq", "scaling_max_freq"}
LimitWrites(writes) == SelectSeq(writes, IsLimitWrite)

\* the hardware limits in MHz as core 0 reports them
HwMinMHz(fs) == fs.cpuinfo_min_freq[0] \div 1000
HwMaxMHz(fs) == fs.cpuinfo_max_freq[0] \div 1000

\* the filesystem a sequence of writes leaves
RECURSIVE Replay(_, _)
Replay(fs, writes) ==
    IF writes = <<>>
    THEN fs
    ELSE Replay([fs EXCEPT ![Head(writes)[1]][Head(writes)[2]] = Head(writes)[3]],
                Tail(writes))

(***************************************************************************)
(* C1: after a successful Profile::apply, whatever limits the cores held   *)
(* before, every core's scaling min is the profile's min bound if it names *)
(* one and the hardware min otherwise, and every core's scaling max is the *)
(* profile's max bound if it names one and the hardware max otherwise      *)
(* (the hardware limits being those core 0 reports).                       *)
(***************************************************************************)
C1_LimitsAfterApply ==
    (last.op = "apply" /\ last.res.ok) =>
        \A c \in Cores :
            /\ sysfs.scaling_min_freq[c] =
                   1000 * (IF IsSome(AppliedProfile.min_freq_mhz)
                           THEN Unwrap(AppliedProfile.min_freq_mhz)
                           ELSE HwMinMHz(sysfs))
            /\ sysfs.scaling_max_freq[c] =
                   1000 * (IF IsSome(AppliedProfile.max_freq_mhz)
                           THEN Unwrap(AppliedProfile.max_freq_mhz)
                           ELSE HwMaxMHz(sysfs))

\* a profile without bounds applied over the narrower limits another left
C1_Witness ==
    /\ last.op = "apply" /\ last.res.ok
    /\ AppliedProfile.min_freq_mhz = None
    /\ AppliedProfile.max_freq_mhz = None
    /\ \A c \in Cores :
          /\ before.scaling_min_freq[c] > before.cpuinfo_min_freq[0]
          /\ before.scaling_max_freq[c] < before.cpuinfo_max_freq[0]
          /\ sysfs.scaling_min_freq[c] = sysfs.cpuinfo_min_freq[0]
          /\ sysfs.scaling_max_freq[c] = sysfs.cpuinfo_max_freq[0]

(***************************************************************************)
(* C2: Profile::apply resets the scaling min and max of every core to the  *)
(* hardware min and max whether or not the profile names bounds, and every *)
(* reset write comes before the first write of a profile bound: the writes *)
(* to the limit files are, in this order, min and max of core 0, min and   *)
(* max of core 1, ..., all to the hardware values, then the profile's min  *)
(* on every core, then the profile's max on every core; an apply that      *)
(* fails stops somewhere in that sequence.                                 *)
(***************************************************************************)
C2_ResetWrites(fs) ==
    [i \in 1 .. 2 * core_count |->
        IF i % 2 = 1
        THEN <<"scaling_min_freq", (i - 1) \div 2, 1000 * HwMinMHz(fs)>>
        ELSE <<"scaling_max_freq", (i - 2) \div 2, 1000 * HwMaxMHz(fs)>>]

C2_BoundWrites(kind, bound) ==
    IF IsSome(bound)
    THEN [i \in 1 .. core_count |-> <<kind, i - 1, 1000 * Unwrap(bound)>>]
    ELSE <<>>

C2_LimitWritesOf(p, fs) ==
    C2_ResetWrites(fs)
        \o C2_BoundWrites("scaling_min_freq", p.min_freq_mhz)
        \o C2_BoundWrites("scaling_max_freq", p.max_freq_mhz)

C2_ResetBeforeBounds ==
    last.op = "apply" =>
        LET made == LimitWrites(last.writes)
            all == C2_LimitWritesOf(AppliedProfile, before)
        IN  /\ IsPrefix(made, all)
            /\ last.res.ok => made = all

\* Silent (800/2000) applied after a profile without bounds: hardware values
\* on every core first, 800 and 2000 after them
C2_Witness ==
    /\ last.op = "apply" /\ last.res.ok
    /\ AppliedProfile.name = "Silent"
    /\ \A c \in Cores : before.scaling_max_freq[c] = before.cpuinfo_max_freq[0]
    /\ Len(LimitWrites(last.writes)) = 4 * core_count
    /\ LimitWrites(last.writes)[2 * core_count] =
           <<"scaling_max_freq", core_count - 1, sysfs.cpuinfo_max_freq[0]>>
    /\ LimitWrites(last.writes)[2 * core_count + 1] =
           <<"scaling_min_freq", 0, 800000>>

(***************************************************************************)
(* C6: when one of apply's steps 1-6 fails (query the governors, resolve   *)
(* the governor, set it on all cores, set turbo, reset the limits, apply   *)
(* the profile's bounds), apply returns that error, makes no write of a    *)
(* later step and leaves the writes it made in place; when set_turbo       *)
(* fails, the governors are written and no limit is reset.                 *)
(***************************************************************************)
C6_TurboContexts ==
    {"Failed to enable turbo", "Failed to disable turbo",
     "Failed to set turbo to auto mode"}

\* the step an error came from: its context, or for the two steps that
\* add none the error itself
C6_FailedStep(res) ==
    CASE res.ctx = "Failed to get available governors" -> 1
      [] res.ctx = "none" /\ res.err = "NoSuitableGovernor" -> 2
      [] res.ctx = "Failed to set governor" -> 3
      [] res.ctx \in C6_TurboContexts -> 4
      [] res.ctx = "none" /\ res.err = "Io" -> 5
      [] res.ctx \in {"Failed to reset min frequency",
                      "Failed to reset max frequency"} -> 5
      [] res.ctx \in {"Failed to set min frequency",
                      "Failed to set max frequency"} -> 6
      [] OTHER -> 0

\* the step a write belongs to
C6_StepOfWrite(w, made_before) ==
    CASE w[1] = "scaling_governor" -> 3
      [] w[1] \in {"no_turbo", "boost"} -> 4
      [] IsLimitWrite(w) ->
           IF Len(LimitWrites(made_before)) < 2 * core_count THEN 5 ELSE 6
      [] OTHER -> 7

\* what every step needs to succeed
C6_NothingFails(p, fs) ==
    /\ is_root
    /\ \A c \in Cores :
          /\ File("scaling_available_governors", c) \notin faulty
          /\ File("scaling_governor", c) \notin faulty
          /\ File("scaling_min_freq", c) \notin faulty
          /\ File("scaling_max_freq", c) \notin faulty
    /\ File("cpuinfo_min_freq", 0) \notin faulty
    /\ File("cpuinfo_max_freq", 0) \notin faulty
    /\ \/ driver = "IntelPstate" /\ File("no_turbo", 0) \notin faulty
       \/ /\ driver = "AcpiCpufreq"
          /\ fs.boost[0] # Absent
          /\ File("boost", 0) \notin faulty
    /\ \E g \in fs.scaling_available_governors[0] :
          /\ \/ g = p.governor
             \/ /\ p.governor \notin fs.scaling_available_governors[0]
                /\ \E i \in 1 .. Len(C5_Ranking(p.name)) :
                      /\ g = C5_Ranking(p.name)[i]
                      /\ \A j \in 1 .. (i - 1) :
                            C5_Ranking(p.name)[j]
                                \notin fs.scaling_available_governors[0]
          /\ \A c \in Cores : g \in fs.scaling_available_governors[c]

C6_FailureAborts ==
    last.op = "apply" =>
        /\ last.res.ok <=> C6_NothingFails(AppliedProfile, before)
        /\ ~last.res.ok =>
              /\ C6_FailedStep(last.res) \in 1 .. 6
              /\ \A i \in 1 .. Len(last.writes) :
                    C6_StepOfWrite(last.writes[i],
                                   SubSeq(last.writes, 1, i - 1))
                        <= C6_FailedStep(last.res)
              /\ sysfs = Replay(before, last.writes)
              /\ C6_FailedStep(last.res) = 4 =>
                    /\ Len(last.writes) = core_count
                    /\ \A c \in Cores :
                          /\ last.writes[c + 1][1] = "scaling_governor"
                          /\ last.writes[c + 1][2] = c
                          /\ sysfs.scaling_governor[c] = last.writes[c + 1][3]
                          /\ sysfs.scaling_min_freq[c] =
                                 before.scaling_min_freq[c]
                          /\ sysfs.scaling_max_freq[c] =
                                 before.scaling_max_freq[c]

\* set_turbo fails on a driver without turbo control after the governor of
\* every core was changed, and the narrowed limits stay
C6_Witness ==
    /\ last.op = "apply" /\ ~last.res.ok
    /\ last.res.ctx = "Failed to enable turbo"
    /\ last.res.err = "NotSupported"
    /\ \A c \in Cores :
          /\ sysfs.scaling_governor[c] # before.scaling_governor[c]
          /\ sysfs.scaling_governor[c] = "performance"
          /\ sysfs.scaling_max_freq[c] = before.scaling_max_freq[c]

(***************************************************************************)
(* C7 as stated: on a manager whose driver is not IntelPstate, an apply    *)
(* of a profile with an EPP hint that is privileged, meets no I/O error    *)
(* and has set the governor on every core completes.                       *)
(***************************************************************************)
C7_GovernorsWritten ==
    /\ Len(last.writes) >= core_count
    /\ \A c \in Cores :
          /\ last.writes[c + 1][1] = "scaling_governor"
          /\ last.writes[c + 1][2] = c

C7_EppFailureNeverAborts ==
    (/\ last.op = "apply"
     /\ driver # "IntelPstate"
     /\ IsSome(AppliedProfile.epp)
     /\ is_root /\ faulty = {}
     /\ C7_GovernorsWritten) => last.res.ok

(***************************************************************************)
(* C7, amended: on a manager whose driver is not IntelPstate, set_epp      *)
(* fails and an apply of a profile with an EPP hint never returns that     *)
(* failure and writes no EPP file.  Where turbo can be set (AcpiCpufreq    *)
(* with a boost file) an apply that is privileged and meets no I/O error   *)
(* and no unavailable governor completes, with the governor on every core  *)
(* and the boost file written; on AmdPstate, Unknown and AcpiCpufreq       *)
(* without a boost file it aborts at set_turbo, before the EPP step.       *)
(***************************************************************************)
C7_TurboSupported == driver = "AcpiCpufreq" /\ exists(before, "boost", 0)

C7_EppFailureSwallowed ==
    (/\ last.op = "apply"
     /\ driver # "IntelPstate"
     /\ IsSome(AppliedProfile.epp)) =>
        /\ ~set_epp(before, Unwrap(AppliedProfile.epp)).res.ok
        /\ \A i \in 1 .. Len(last.writes) :
              last.writes[i][1] # "energy_performance_preference"
        /\ sysfs.energy_performance_preference
               = before.energy_performance_preference
        /\ last.res.err = "NotSupported" =>
              /\ last.res.ctx \in C6_TurboContexts
              /\ ~C7_TurboSupported
        /\ (is_root /\ faulty = {} /\ C7_GovernorsWritten) =>
              (last.res.ok <=> C7_TurboSupported)
        /\ last.res.ok =>
              /\ C7_GovernorsWritten
              /\ \A c \in Cores :
                    sysfs.scaling_governor[c] = last.writes[1][3]
              /\ sysfs.boost[0] =
                     (IF AppliedProfile.turbo = "Never" THEN "0" ELSE "1")

\* Power Saver (EPP hint "power", turbo Never) applied on AcpiCpufreq: the
\* governor of every core changed, boost switched off, the result Ok
C7_Witness ==
    /\ last.op = "apply" /\ last.res.ok
    /\ driver = "AcpiCpufreq"
    /\ IsSome(AppliedProfile.epp)
    /\ AppliedProfile.turbo = "Never"
    /\ before.boost[0] = "1" /\ sysfs.boost[0] = "0"
    /\ \A c \in Cores :
          /\ sysfs.scaling_governor[c] # before.scaling_governor[c]
          /\ exists(sysfs, "energy_performance_preference", c)

(***************************************************************************)
(* The mutating operations of CpuManager as calls                          *)
(***************************************************************************)
CoreInputs == 0 .. core_count        \* the cores and one index past them
FreqInputs == {800, 3000}
OverflowInputs == {4294968}          \* MHz; times 1000 it exceeds u32::MAX
GovernorInputs == {"performance", "ondemand"}
LimitInputs == {<<800, 3000>>, <<3000, 800>>}    \* (min, max)
EppInputs == {"balance_power"}

SetFrequency(core, freq_mhz) ==
    Call("set_frequency", <<core, freq_mhz>>,
         set_frequency(sysfs, core, freq_mhz))

SetFrequencyAll(freq_mhz) ==
    Call("set_frequency_all", <<freq_mhz>>, set_frequency_all(sysfs, freq_mhz))

SetScalingMinFreq(core, freq_mhz) ==
    Call("set_scaling_min_freq", <<core, freq_mhz>>,
         set_scaling_min_freq(sysfs, core, freq_mhz))

SetScalingMaxFreq(core, freq_mhz) ==
    Call("set_scaling_max_freq", <<core, freq_mhz>>,
         set_scaling_max_freq(sysfs, core, freq_mhz))

SetScalingLimitsAll(min_mhz, max_mhz) ==
    Call("set_scaling_limits_all", <<min_mhz, max_mhz>>,
         set_scaling_limits_all(sysfs, min_mhz, max_mhz))

SetGovernor(core, governor) ==
    Call("set_governor", <<core, governor>>,
         set_governor(sysfs, core, governor))

SetGovernorAll(governor) ==
    Call("set_governor_all", <<governor>>, set_governor_all(sysfs, governor))

SetTurbo(enable) ==
    Call("set_turbo", <<enable>>, set_turbo(sysfs, enable))

SetEpp(epp) ==
    Call("set_epp", <<epp>>, set_epp(sysfs, epp))

SetCoreOnline(core, online) ==
    Call("set_core_online", <<core, online>>,
         set_core_online(sysfs, core, online))

IsCoreOnline(core) ==
    Query("is_core_online", <<core>>, is_core_online(sysfs, core))

MutatingOps ==
    {"set_frequency", "set_frequency_all", "set_scaling_min_freq",
     "set_scaling_max_freq", "set_scaling_limits_all", "set_governor",
     "set_governor_all", "set_turbo", "set_epp", "set_core_online"}

(***************************************************************************)
(* Spec: up to MaxCalls calls of any mutating operation on any machine     *)
(***************************************************************************)
UniformGovernors == {[c \in Cores |-> s] : s \in GovernorSets}

Init ==
    InitMachine([drivers |-> CpuDriver, roots |-> BOOLEAN, builds |-> BOOLEAN,
                 faults |-> {"scaling_governor", "online"},
                 governors |-> UniformGovernors, epp |-> {Cores, {}},
                 online0 |-> {Absent, "1"}, hybrid |-> {FALSE}])

Next ==
    \/ \E core \in CoreInputs, freq_mhz \in FreqInputs \cup OverflowInputs :
          \/ Counted(SetFrequency(core, freq_mhz))
          \/ Counted(SetScalingMinFreq(core, freq_mhz))
          \/ Counted(SetScalingMaxFreq(core, freq_mhz))
    \/ \E freq_mhz \in FreqInputs : Counted(SetFrequencyAll(freq_mhz))
    \/ \E limits \in LimitInputs :
          Counted(SetScalingLimitsAll(limits[1], limits[2]))
    \/ \E core \in CoreInputs, governor \in GovernorInputs :
          Counted(SetGovernor(core, governor))
    \/ \E governor \in GovernorInputs : Counted(SetGovernorAll(governor))
    \/ \E enable \in BOOLEAN : Counted(SetTurbo(enable))
    \/ \E epp \in EppInputs : Counted(SetEpp(epp))
    \/ \E core \in CoreInputs, online \in BOOLEAN :
          Counted(SetCoreOnline(core, online))
    \/ \E p \in Profiles : Counted(Apply(p))

Spec == Init /\ [][Next]_vars

(***************************************************************************)
(* SpecOnline: any sequence of set_core_online, is_core_online, set_turbo  *)
(* and apply                                                               *)
(***************************************************************************)
InitOnline ==
    InitMachine([drivers |-> {"IntelPstate", "Unknown"}, roots |-> BOOLEAN,
                 builds |-> {FALSE}, faults |-> {"online"},
                 governors |-> {[c \in Cores |-> {"performance", "powersave"}]},
                 epp |-> {{}}, online0 |-> {Absent, "0", "1"},
                 hybrid |-> {FALSE}])

NextOnline ==
    \/ \E core \in CoreInputs, online \in BOOLEAN :
          Uncounted(SetCoreOnline(core, online))
    \/ \E core \in CoreInputs : Uncounted(IsCoreOnline(core))
    \/ \E enable \in BOOLEAN : Uncounted(SetTurbo(enable))
    \/ \E p \in {performance, powersave} : Uncounted(Apply(p))
    \/ Uncounted(Repair)

SpecOnline == InitOnline /\ [][NextOnline]_vars

(***************************************************************************)
(* SpecGovernor: any sequence of set_governor and set_governor_all         *)
(***************************************************************************)
InitGovernor ==
    InitMachine([drivers |-> {"AcpiCpufreq"}, roots |-> BOOLEAN,
                 builds |-> {FALSE},
                 faults |-> {"scaling_governor", "scaling_available_governors"},
                 governors |-> AvailableGovernors \cup {[c \in Cores |-> {}]},
                 epp |-> {{}}, online0 |-> {Absent}, hybrid |-> {FALSE}])

NextGovernor ==
    \/ \E core \in CoreInputs, governor \in Governors :
          Uncounted(SetGovernor(core, governor))
    \/ \E governor \in Governors :
          Uncounted(SetGovernorAll(governor))
    \/ Uncounted(Repair)

SpecGovernor == InitGovernor /\ [][NextGovernor]_vars

(***************************************************************************)
(* SpecAllCores: any sequence of the operations over all cores             *)
(***************************************************************************)
InitAllCores ==
    InitMachine([drivers |-> {"AmdPstate"}, roots |-> BOOLEAN,
                 builds |-> {FALSE},
                 faults |-> {"scaling_governor", "scaling_available_governors",
                             "scaling_setspeed", "scaling_min_freq",
                             "scaling_max_freq"},
                 governors |-> AvailableGovernors, epp |-> {{}},
                 online0 |-> {Absent}, hybrid |-> {FALSE}])

NextAllCores ==
    \/ \E governor \in Governors : Uncounted(SetGovernorAll(governor))
    \/ \E freq_mhz \in FreqInputs : Uncounted(SetFrequencyAll(freq_mhz))
    \/ \E limits \in LimitInputs :
          Uncounted(SetScalingLimitsAll(limits[1], limits[2]))
    \/ Uncounted(Repair)

SpecAllCores == InitAllCores /\ [][NextAllCores]_vars

(***************************************************************************)
(* C3 as stated: every mutating operation called without privilege fails   *)
(* with PermissionDenied before any file is written, on every driver and   *)
(* for every core index, and leaves the filesystem unchanged.              *)
(***************************************************************************)
C3_UnprivilegedPermissionDenied ==
    (~is_root /\ last.op \in MutatingOps) =>
        /\ last.res.err = "PermissionDenied"
        /\ last.writes = <<>>
        /\ sysfs = before

(***************************************************************************)
(* C3, amended: every mutating operation called without privilege fails    *)
(* before any file is written and leaves the filesystem unchanged, on      *)
(* every driver and for every core index; the error is PermissionDenied,   *)
(* except that set_epp on a driver other than IntelPstate fails with       *)
(* not-supported and set_core_online on core 0 with the precondition       *)
(* error, both of which are tested before the privilege.                   *)
(***************************************************************************)
C3_UnprivilegedError ==
    IF last.op = "set_epp" /\ driver # "IntelPstate"
    THEN "NotSupported"
    ELSE IF last.op = "set_core_online" /\ last.args[1] = 0
    THEN "Precondition"
    ELSE "PermissionDenied"

C3_UnprivilegedWritesNothing ==
    (~is_root /\ last.op \in MutatingOps) =>
        /\ ~last.res.ok
        /\ last.res.err = C3_UnprivilegedError
        /\ last.writes = <<>>
        /\ sysfs = before

\* set_scaling_limits_all refused although every file could be written and
\* none holds the requested value
C3_Witness ==
    /\ ~is_root /\ faulty = {}
    /\ last.op = "set_scaling_limits_all"
    /\ last.res.err = "PermissionDenied"
    /\ \A c \in Cores :
          /\ sysfs.scaling_min_freq[c] # 1000 * last.args[1]
          /\ sysfs.scaling_max_freq[c] # 1000 * last.args[2]

(***************************************************************************)
(* C8: core 0 is always reported online, whatever the online file of core  *)
(* 0 holds or whether it exists; set_core_online(0, false) always fails    *)
(* with the precondition error and writes no file, privileged or not; no   *)
(* call writes the online file of core 0, so no sequence of calls takes    *)
(* core 0 offline.                                                         *)
(***************************************************************************)
C8_Core0AlwaysOnline ==
    /\ is_core_online(sysfs, 0) = [res |-> Ok, val |-> Some(TRUE)]
    /\ (last.op = "is_core_online" /\ last.args[1] = 0) =>
          last.res.ok /\ last.val = Some(TRUE)
    /\ (last.op = "set_core_online" /\ last.args = <<0, FALSE>>) =>
          /\ last.res.err = "Precondition"
          /\ last.writes = <<>>
          /\ sysfs = before
    /\ \A i \in 1 .. Len(last.writes) :
          ~(last.writes[i][1] = "online" /\ last.writes[i][2] = 0)
    /\ sysfs.online[0] = before.online[0]

\* a privileged set_core_online(0, false) on a machine whose core 0 has a
\* writable online file, after another core was taken offline
C8_Witness ==
    /\ is_root /\ faulty = {}
    /\ last.op = "set_core_online" /\ last.args = <<0, FALSE>>
    /\ last.res.err = "Precondition"
    /\ sysfs.online[0] = "1"
    /\ \E c \in Cores : sysfs.online[c] = "0"

(***************************************************************************)
(* C9: set_governor_all, set_frequency_all and set_scaling_limits_all      *)
(* write the cores in ascending order and stop at the first core k that    *)
(* fails: the call returns an error, every core below k holds the new      *)
(* value, no file of a core above k is written, and nothing is undone.     *)
(***************************************************************************)
AllCoresOps ==
    {"set_governor_all", "set_frequency_all", "set_scaling_limits_all"}

\* the writes of a call that fails on no core
C9_AllWrites ==
    CASE last.op = "set_governor_all" ->
           [i \in 1 .. core_count |->
               <<"scaling_governor", i - 1, last.args[1]>>]
      [] last.op = "set_frequency_all" ->
           [i \in 1 .. core_count |->
               <<"scaling_setspeed", i - 1, 1000 * last.args[1]>>]
      [] last.op = "set_scaling_limits_all" ->
           [i \in 1 .. 2 * core_count |->
               IF i % 2 = 1
               THEN <<"scaling_min_freq", (i - 1) \div 2, 1000 * last.args[1]>>
               ELSE <<"scaling_max_freq", (i - 2) \div 2, 1000 * last.args[2]>>]

\* the first core not completely written
C9_FailingCore == (Len(last.writes) * core_count) \div Len(C9_AllWrites)

C9_FailFastAscending ==
    last.op \in AllCoresOps =>
        /\ IsPrefix(last.writes, C9_AllWrites)
        /\ last.res.ok <=> last.writes = C9_AllWrites
        /\ sysfs = Replay(before, last.writes)
        /\ ~last.res.ok =>
              /\ C9_FailingCore \in Cores
              /\ \A i \in 1 .. Len(C9_AllWrites) :
                    LET w == C9_AllWrites[i]
                    IN  /\ w[2] < C9_FailingCore => sysfs[w[1]][w[2]] = w[3]
                        /\ w[2] > C9_FailingCore =>
                              sysfs[w[1]][w[2]] = before[w[1]][w[2]]
              /\ \A c \in Cores, kind \in PerCoreFiles :
                    c > C9_FailingCore => sysfs[kind][c] = before[kind][c]

\* set_governor_all failed on a core between others: the cores below it
\* run the new governor, which they did not run before, and the cores above
\* it, which list that governor, run the one they ran before
C9_Witness ==
    /\ last.op = "set_governor_all" /\ ~last.res.ok
    /\ C9_FailingCore > 0 /\ C9_FailingCore < core_count - 1
    /\ \A c \in Cores :
          /\ c < C9_FailingCore =>
                /\ sysfs.scaling_governor[c] = last.args[1]
                /\ before.scaling_governor[c] # last.args[1]
          /\ c > C9_FailingCore =>
                /\ last.args[1] \in sysfs.scaling_available_governors[c]
                /\ sysfs.scaling_governor[c] # last.args[1]

(***************************************************************************)
(* C10: set_governor(core, g) fails whenever g is not in the core's        *)
(* available-governors list and then leaves the governor of every core     *)
(* unchanged; after any sequence of set_governor and set_governor_all      *)
(* calls the governor of a core is its initial one or a member of its      *)
(* list.                                                                   *)
(***************************************************************************)
C10_UnavailableGovernorRejected ==
    /\ (/\ last.op = "set_governor"
        /\ last.args[1] \in Cores
        /\ last.args[2] \notin before.scaling_available_governors[last.args[1]])
       => /\ ~last.res.ok
          /\ last.writes = <<>>
          /\ sysfs.scaling_governor = before.scaling_governor
          /\ (/\ is_root
              /\ File("scaling_available_governors", last.args[1]) \notin faulty)
             => last.res.err = "InvalidValue"
    /\ \A c \in Cores :
          /\ \/ sysfs.scaling_governor[c] = before.scaling_governor[c]
             \/ sysfs.scaling_governor[c] \in sysfs.scaling_available_governors[c]
          /\ \/ sysfs.scaling_governor[c] =
                    initial_governor(sysfs.scaling_available_governors[c])
             \/ sysfs.scaling_governor[c] \in sysfs.scaling_available_governors[c]

\* a privileged set_governor of a governor another core lists and this one
\* does not, made after the governor of some core had been changed
C10_Witness ==
    /\ is_root /\ faulty = {}
    /\ last.op = "set_governor" /\ last.args[1] \in Cores
    /\ last.args[2] \notin sysfs.scaling_available_governors[last.args[1]]
    /\ \E c \in Cores : last.args[2] \in sysfs.scaling_available_governors[c]
    /\ last.res.err = "InvalidValue"
    /\ \E c \in Cores :
          sysfs.scaling_governor[c] #
              initial_governor(sysfs.scaling_available_governors[c])

(***************************************************************************)
(* SpecTurbo: any sequence of is_turbo_enabled and set_turbo               *)
(***************************************************************************)
IsTurboEnabled == Query("is_turbo_enabled", <<>>, is_turbo_enabled(sysfs))

InitTurbo ==
    InitMachine([drivers |-> CpuDriver, roots |-> BOOLEAN, builds |-> {FALSE},
                 faults |-> {"no_turbo", "boost"},
                 governors |-> UniformGovernors, epp |-> {{}},
                 online0 |-> {Absent}, hybrid |-> {FALSE}])

NextTurbo ==
    \/ Uncounted(IsTurboEnabled)
    \/ \E enable \in BOOLEAN : Uncounted(SetTurbo(enable))
    \/ Uncounted(Repair)

SpecTurbo == InitTurbo /\ [][NextTurbo]_vars

(***************************************************************************)
(* C11: on the drivers without turbo support, AmdPstate and Unknown,       *)
(* is_turbo_enabled fails with the not-supported error, a privileged       *)
(* set_turbo fails with the not-supported error, and neither writes a      *)
(* file.                                                                   *)
(***************************************************************************)
C11_TurboNotSupported ==
    driver \in {"AmdPstate", "Unknown"} =>
        /\ last.op = "is_turbo_enabled" =>
              /\ last.res.err = "NotSupported"
              /\ sysfs = before
        /\ (last.op = "set_turbo" /\ is_root) =>
              /\ last.res.err = "NotSupported"
              /\ last.writes = <<>>
              /\ sysfs = before

(***************************************************************************)
(* C12: after a successful Profile::apply turbo is disabled if and only if *)
(* the profile's turbo mode is Never: on IntelPstate no_turbo holds 1 iff  *)
(* the mode is Never, on AcpiCpufreq boost holds 0 iff the mode is Never,  *)
(* and is_turbo_enabled read afterwards returns the value that was set.    *)
(***************************************************************************)
C12_TurboIffNotNever ==
    (last.op = "apply" /\ last.res.ok) =>
        LET enabled == AppliedProfile.turbo # "Never"
        IN  /\ driver \in {"IntelPstate", "AcpiCpufreq"}
            /\ driver = "IntelPstate" =>
                  sysfs.no_turbo[0] = (IF enabled THEN "0" ELSE "1")
            /\ driver = "AcpiCpufreq" =>
                  sysfs.boost[0] = (IF enabled THEN "1" ELSE "0")
            /\ is_turbo_enabled(sysfs) = [res |-> Ok, val |-> Some(enabled)]

\* Balanced (Auto) applied on IntelPstate after a profile that had switched
\* turbo off
C12_Witness ==
    /\ last.op = "apply" /\ last.res.ok
    /\ driver = "IntelPstate"
    /\ AppliedProfile.turbo = "Auto"
    /\ before.no_turbo[0] = "1" /\ sysfs.no_turbo[0] = "0"

(***************************************************************************)
(* SpecEpp: any sequence of get_epp and set_epp                            *)
(***************************************************************************)
GetEpp(core) == Query("get_epp", <<core>>, get_epp(sysfs, core))

InitEpp ==
    InitMachine([drivers |-> CpuDriver, roots |-> BOOLEAN, builds |-> {FALSE},
                 faults |-> {"energy_performance_preference"},
                 governors |-> UniformGovernors, epp |-> EppCores,
                 online0 |-> {Absent}, hybrid |-> {FALSE}])

NextEpp ==
    \/ \E core \in CoreInputs : Uncounted(GetEpp(core))
    \/ \E epp \in EppInputs \cup {"power"} : Uncounted(SetEpp(epp))
    \/ Uncounted(Repair)

SpecEpp == InitEpp /\ [][NextEpp]_vars

(***************************************************************************)
(* C13: on every driver other than IntelPstate, set_epp and get_epp fail   *)
(* with the not-supported error and no energy_performance_preference file  *)
(* is written, whether or not the file exists.                             *)
(***************************************************************************)
C13_EppOnlyOnIntel ==
    (driver # "IntelPstate" /\ faulty = {}) =>
        /\ last.op \in {"set_epp", "get_epp"} =>
              /\ last.res.err = "NotSupported"
              /\ last.writes = <<>>
        /\ sysfs.energy_performance_preference
               = before.energy_performance_preference

(***************************************************************************)
(* CpuManager::detect_core_count.  A file name is the sequence of its      *)
(* characters; in SpecCount sysfs is the base directory: whether it can be *)
(* listed and the names of its entries.                                    *)
(***************************************************************************)
AsciiDigits == {"0", "1", "7"}
\* characters char::is_numeric accepts: the decimal digits and the other
\* numeric characters of Unicode, such as SUPERSCRIPT TWO
is_numeric(c) == c \in AsciiDigits \cup {"U+00B2"}

starts_with(name, prefix) ==
    Len(name) >= Len(prefix) /\ SubSeq(name, 1, Len(prefix)) = prefix

\* name.chars().skip(3).all(|c| c.is_numeric())
skip3_all_numeric(name) ==
    \A i \in 4 .. Len(name) : is_numeric(name[i])

detect_core_count(dir) ==
    IF ~dir.listable
    THEN [res |-> Err("Io"), val |-> None]
    ELSE [res |-> Ok,
          val |-> Some(Cardinality(
              {e \in dir.entries :
                  starts_with(e, <<"c", "p", "u">>) /\ skip3_all_numeric(e)}))]

EntryNames ==
    {<<"c", "p", "u">>,
     <<"c", "p", "u", "0">>,
     <<"c", "p", "u", "1">>,
     <<"c", "p", "u", "1", "7">>,
     <<"c", "p", "u", "f", "r", "e", "q">>,
     <<"c", "p", "u", "i", "d", "l", "e">>,
     <<"c", "p", "u", "0", "a">>,
     <<"c", "p", "u", "U+00B2">>,
     <<"a", "c", "p", "u", "0">>,
     <<"o", "n", "l", "i", "n", "e">>}

DetectCoreCount ==
    Query("detect_core_count", <<>>, detect_core_count(sysfs))

InitCount ==
    /\ sysfs \in [listable : BOOLEAN, entries : SUBSET EntryNames]
    /\ ~sysfs.listable => sysfs.entries = {}
    /\ driver = "Unknown" /\ is_root = FALSE /\ overflow_checks = FALSE
    /\ faulty = {}
    /\ profiles = ProfileManager_new
    /\ threads = NoThreads
    /\ before = sysfs /\ last = NoCall /\ calls = 0

NextCount == Uncounted(DetectCoreCount)

SpecCount == InitCount /\ [][NextCount]_vars

(***************************************************************************)
(* C14: the core count is the number of entries of the base directory      *)
(* whose name is "cpu" followed by one or more decimal digits and nothing  *)
(* else; "cpu", "cpufreq" and "cpuidle" are not counted; a base directory  *)
(* that cannot be listed yields an error.                                  *)
(***************************************************************************)
C14_IsCpuDigits(name) ==
    /\ Len(name) >= 4
    /\ SubSeq(name, 1, 3) = <<"c", "p", "u">>
    /\ \A i \in 4 .. Len(name) : name[i] \in AsciiDigits

C14_CoreCountPattern ==
    last.op = "detect_core_count" =>
        IF before.listable
        THEN /\ last.res.ok
             /\ last.val =
                    Some(Cardinality({e \in before.entries : C14_IsCpuDigits(e)}))
        ELSE ~last.res.ok

(***************************************************************************)
(* SpecConvert: any sequence of the scaling-limit setters and of the       *)
(* getters that convert kHz to MHz, on both builds                         *)
(***************************************************************************)
\* MHz; 4294968 * 1000 exceeds u32::MAX = 4294967295 by 705
ConvertInputs == {2400, 4294968}

GetScalingMinFreq(core) ==
    Query("get_scaling_min_freq", <<core>>, get_scaling_min_freq(sysfs, core))

GetScalingMaxFreq(core) ==
    Query("get_scaling_max_freq", <<core>>, get_scaling_max_freq(sysfs, core))

GetHardwareMinFreq(core) ==
    Query("get_hardware_min_freq", <<core>>,
          get_hardware_min_freq(sysfs, core))

GetHardwareMaxFreq(core) ==
    Query("get_hardware_max_freq", <<core>>,
          get_hardware_max_freq(sysfs, core))

InitConvert ==
    InitMachine([drivers |-> {"Unknown"}, roots |-> BOOLEAN,
                 builds |-> BOOLEAN, faults |-> {},
                 governors |-> {[c \in Cores |-> {"userspace"}]},
                 epp |-> {{}}, online0 |-> {Absent}, hybrid |-> BOOLEAN])

NextConvert ==
    \/ \E core \in CoreInputs, freq_mhz \in ConvertInputs :
          \/ Uncounted(SetScalingMinFreq(core, freq_mhz))
          \/ Uncounted(SetScalingMaxFreq(core, freq_mhz))
    \/ \E core \in CoreInputs :
          \/ Uncounted(GetScalingMinFreq(core))
          \/ Uncounted(GetScalingMaxFreq(core))
          \/ Uncounted(GetHardwareMinFreq(core))
          \/ Uncounted(GetHardwareMaxFreq(core))

SpecConvert == InitConvert /\ [][NextConvert]_vars

(***************************************************************************)
(* C15: for every core and every u32 value f in MHz, a privileged          *)
(* set_scaling_min_freq / set_scaling_max_freq stores exactly f * 1000 in  *)
(* the file and the matching getter then returns f; every getter returns   *)
(* the stored kHz value divided by 1000, truncated toward zero.            *)
(***************************************************************************)
C15_FileOf(op) ==
    CASE op \in {"set_scaling_min_freq", "get_scaling_min_freq"} ->
           "scaling_min_freq"
      [] op \in {"set_scaling_max_freq", "get_scaling_max_freq"} ->
           "scaling_max_freq"
      [] op = "get_hardware_min_freq" -> "cpuinfo_min_freq"
      [] op = "get_hardware_max_freq" -> "cpuinfo_max_freq"

C15_ConversionExact ==
    /\ (/\ last.op \in {"set_scaling_min_freq", "set_scaling_max_freq"}
        /\ is_root
        /\ last.args[1] \in Cores) =>
          LET stored == sysfs[C15_FileOf(last.op)][last.args[1]]
          IN  /\ last.res.ok
              \* stored = f * 1000
              /\ stored \div 1000 = last.args[2]
              /\ stored % 1000 = 0
              /\ read_mhz(sysfs, C15_FileOf(last.op), last.args[1]).val
                     = Some(last.args[2])
    /\ (/\ last.op \in {"get_scaling_min_freq", "get_scaling_max_freq",
                        "get_hardware_min_freq", "get_hardware_max_freq"}
        /\ last.args[1] \in Cores) =>
          /\ last.res.ok
          /\ 1000 * Unwrap(last.val)
                 <= sysfs[C15_FileOf(last.op)][last.args[1]]
          /\ sysfs[C15_FileOf(last.op)][last.args[1]]
                 < 1000 * Unwrap(last.val) + 1000

(***************************************************************************)
(* SpecFrequency: any sequence of set_frequency and get_frequency, with    *)
(* the kernel, which alone writes scaling_cur_freq, moving a core to       *)
(* another operating point at any time                                     *)
(***************************************************************************)
OperatingPointsKHz == {800000, 3000999}

GetFrequency(core) ==
    Query("get_frequency", <<core>>, get_frequency(sysfs, core))

KernelSetsCurFreq(core, freq_khz) ==
    /\ sysfs.scaling_cur_freq[core] # freq_khz
    /\ sysfs' = [sysfs EXCEPT !.scaling_cur_freq[core] = freq_khz]
    /\ before' = sysfs
    /\ last' = [NoCall EXCEPT !.op = "kernel"]
    /\ UNCHANGED <<driver, is_root, overflow_checks, faulty, profiles, threads>>

InitFrequency ==
    InitMachine([drivers |-> {"AcpiCpufreq"}, roots |-> BOOLEAN,
                 builds |-> {FALSE}, faults |-> {},
                 governors |-> {[c \in Cores |-> {"userspace"}]},
                 epp |-> {{}}, online0 |-> {Absent}, hybrid |-> {FALSE}])

NextFrequency ==
    \/ \E core \in CoreInputs, freq_mhz \in FreqInputs :
          Uncounted(SetFrequency(core, freq_mhz))
    \/ \E core \in CoreInputs : Uncounted(GetFrequency(core))
    \/ \E core \in Cores, freq_khz \in OperatingPointsKHz :
          Uncounted(KernelSetsCurFreq(core, freq_khz))

SpecFrequency == InitFrequency /\ [][NextFrequency]_vars

(***************************************************************************)
(* C16 as stated: after a successful set_frequency(i, f), get_frequency(i) *)
(* returns f, and the same set_frequency(i, f) again leaves the state as   *)
(* it is.                                                                  *)
(***************************************************************************)
C16_RoundTrip ==
    (last.op = "set_frequency" /\ last.res.ok) =>
        /\ get_frequency(sysfs, last.args[1])
               = [res |-> Ok, val |-> Some(last.args[2])]
        /\ set_frequency(sysfs, last.args[1], last.args[2]).fs = sysfs

(***************************************************************************)
(* C16, amended: a successful set_frequency(i, f), f * 1000 within u32,    *)
(* stores f * 1000 in scaling_setspeed of core i and changes no other      *)
(* file, and the same call again leaves the state as it is;                *)
(* get_frequency(i) returns scaling_cur_freq of core i divided by 1000,    *)
(* a file set_frequency does not write, so after the set it returns f      *)
(* exactly when the kernel holds the core at f.                            *)
(***************************************************************************)
C16_SetThenGet ==
    /\ (last.op = "set_frequency" /\ last.res.ok) =>
          LET core == last.args[1]
              f == last.args[2]
          IN  /\ core \in Cores
              /\ sysfs = [before EXCEPT !.scaling_setspeed[core] = 1000 * f]
              /\ set_frequency(sysfs, core, f).res.ok
              /\ set_frequency(sysfs, core, f).fs = sysfs
              /\ get_frequency(sysfs, core).res.ok
              /\ (get_frequency(sysfs, core).val = Some(f)) <=>
                    /\ 1000 * f <= before.scaling_cur_freq[core]
                    /\ before.scaling_cur_freq[core] < 1000 * f + 1000
    /\ (last.op = "get_frequency" /\ last.args[1] \in Cores) =>
          /\ last.res.ok
          /\ 1000 * Unwrap(last.val) <= sysfs.scaling_cur_freq[last.args[1]]
          /\ sysfs.scaling_cur_freq[last.args[1]]
                 < 1000 * Unwrap(last.val) + 1000

\* set_frequency(i, 3000) succeeded on a core the kernel holds at 3000 MHz,
\* after an earlier set of 800: get_frequency(i) returns 3000
C16_Witness ==
    /\ last.op = "set_frequency" /\ last.res.ok
    /\ last.args[2] = 3000
    /\ before.scaling_setspeed[last.args[1]] = 800000
    /\ sysfs.scaling_setspeed[last.args[1]] = 3000000
    /\ get_frequency(sysfs, last.args[1]).val = Some(3000)

(***************************************************************************)
(* SpecRegistry: any sequence of ProfileManager calls that keeps the       *)
(* registry within MaxProfiles profiles                                    *)
(***************************************************************************)
MaxProfiles == 6

\* user-defined profiles; the first two carry the name of a built-in one
AddedProfiles ==
    {[silent EXCEPT !.governor = "conservative"],
     [silent EXCEPT !.max_freq_mhz = Some(1600)],
     custom}

LookupNames == {"Performance", "Silent", "silent", "Custom"}

RegistryCall(op, args, registry, val) ==
    /\ profiles' = registry
    /\ before' = profiles
    /\ last' = [op |-> op, args |-> args, res |-> Ok, val |-> val,
                writes |-> <<>>]
    /\ UNCHANGED <<sysfs, driver, is_root, overflow_checks, faulty, threads>>

GetProfiles ==
    RegistryCall("get_profiles", <<>>, profiles, get_profiles(profiles))

GetProfile(name) ==
    RegistryCall("get_profile", <<name>>, profiles, get_profile(profiles, name))

AddProfile(profile) ==
    /\ Len(profiles) < MaxProfiles
    /\ RegistryCall("add_profile", <<profile>>, add_profile(profiles, profile),
                    None)

RemoveProfile(name) ==
    RegistryCall("remove_profile", <<name>>, remove_profile(profiles, name),
                 None)

InitRegistry ==
    /\ sysfs = [listable |-> FALSE, entries |-> {}]
    /\ driver = "Unknown" /\ is_root = FALSE /\ overflow_checks = FALSE
    /\ faulty = {}
    /\ profiles = ProfileManager_new
    /\ threads = NoThreads
    /\ before = profiles /\ last = NoCall /\ calls = 0

NextRegistry ==
    \/ Uncounted(GetProfiles)
    \/ \E name \in LookupNames : Uncounted(GetProfile(name))
    \/ \E profile \in AddedProfiles : Uncounted(AddProfile(profile))
    \/ \E name \in LookupNames : Uncounted(RemoveProfile(name))

SpecRegistry == InitRegistry /\ [][NextRegistry]_vars

(***************************************************************************)
(* C17: the registry starts as Performance, Balanced, Power Saver, Silent  *)
(* in that order; add_profile appends at the end, whether or not the name  *)
(* is already there; get_profile(n) returns the earliest profile whose     *)
(* name is exactly n, none if there is none; after remove_profile(n) no    *)
(* profile named n remains and all others keep their relative order.       *)
(***************************************************************************)
C17_Positions(registry, name) ==
    {i \in 1 .. Len(registry) : registry[i].name = name}

C17_Others(registry, name) ==
    {i \in 1 .. Len(registry) : registry[i].name # name}

C17_Registry ==
    /\ last.op = "new" =>
          /\ Len(profiles) = 4
          /\ profiles[1].name = "Performance"
          /\ profiles[2].name = "Balanced"
          /\ profiles[3].name = "Power Saver"
          /\ profiles[4].name = "Silent"
    /\ last.op \in {"get_profiles", "get_profile"} => profiles = before
    /\ last.op = "get_profiles" => last.val = before
    /\ last.op = "add_profile" =>
          /\ Len(profiles) = Len(before) + 1
          /\ SubSeq(profiles, 1, Len(before)) = before
          /\ profiles[Len(profiles)] = last.args[1]
    /\ last.op = "get_profile" =>
          LET at == C17_Positions(before, last.args[1])
          IN  IF at = {}
              THEN last.val = None
              ELSE \E i \in at :
                      /\ \A j \in at : i <= j
                      /\ last.val = Some(before[i])
    /\ last.op = "remove_profile" =>
          LET others == C17_Others(before, last.args[1])
          IN  /\ C17_Positions(profiles, last.args[1]) = {}
              /\ Len(profiles) = Cardinality(others)
              /\ \A j \in others :
                    profiles[Cardinality({k \in others : k <= j})] = before[j]

\* after a removal and two additions under the name Silent, get_profile
\* returns the built-in Silent, not the later ones of that name
C17_Witness ==
    /\ last.op = "get_profile" /\ last.args[1] = "Silent"
    /\ C17_Positions(profiles, "Performance") = {}
    /\ Cardinality(C17_Positions(profiles, "Silent")) = 3
    /\ last.val = Some(silent)
    /\ profiles[Len(profiles)] # silent

(***************************************************************************)
(* SpecConcurrent: two callers apply different profiles to the same        *)
(* machine while another process may write a limit file.  Profile::apply   *)
(* and CpuManager take no lock; each fs::write is one step.  apply reads   *)
(* the effective uid, scaling_available_governors, cpuinfo_min_freq and    *)
(* cpuinfo_max_freq, none of which a caller writes, so the writes a call   *)
(* is going to make are those apply makes on the state it starts in.       *)
(***************************************************************************)
ConcurrentProfiles == {performance, silent}

\* what a process outside the program writes, and where
ExternalKHz == 1600000
ExternalCores == {0}

\* a caller that makes all its writes in one step
write_all(todo) == Len(todo)

\* the fs::write calls a caller makes in one step
write_step(todo) == 1

BeginApply(t, p) ==
    /\ threads[t].at = "idle"
    /\ \A u \in Callers : threads[u].p # Some(p)
    /\ LET out == apply(p, sysfs)
       IN  threads' = [threads EXCEPT
                          ![t] = [p |-> Some(p), res |-> out.res,
                                  todo |-> out.writes, at |-> "running"]]
    /\ UNCHANGED <<sysfs, driver, is_root, overflow_checks, faulty, profiles,
                   before, last>>

WriteStep(t) ==
    /\ threads[t].at = "running"
    /\ threads[t].todo # <<>>
    /\ LET n == write_step(threads[t].todo)
           now == SubSeq(threads[t].todo, 1, n)
           rest == SubSeq(threads[t].todo, n + 1, Len(threads[t].todo))
       IN  /\ sysfs' = Replay(sysfs, now)
           /\ threads' = [threads EXCEPT ![t].todo = rest]
    /\ UNCHANGED <<driver, is_root, overflow_checks, faulty, profiles, before,
                   last>>

Return(t) ==
    /\ threads[t].at = "running"
    /\ threads[t].todo = <<>>
    /\ threads' = [threads EXCEPT ![t].at = "returned"]
    /\ UNCHANGED <<sysfs, driver, is_root, overflow_checks, faulty, profiles,
                   before, last>>

ExternalWrite(core) ==
    /\ sysfs' = [sysfs EXCEPT !.scaling_max_freq[core] = ExternalKHz]
    /\ last' = [NoCall EXCEPT !.op = "external"]
    /\ UNCHANGED <<driver, is_root, overflow_checks, faulty, profiles, threads,
                   before>>

InitConcurrent ==
    InitMachine([drivers |-> {"IntelPstate", "Unknown"}, roots |-> {TRUE},
                 builds |-> {FALSE}, faults |-> {},
                 governors |-> {[c \in Cores |-> {"performance", "powersave"}]},
                 epp |-> {{}}, online0 |-> {Absent}, hybrid |-> {FALSE}])

NextConcurrent ==
    \/ \E t \in Callers, p \in ConcurrentProfiles : Uncounted(BeginApply(t, p))
    \/ \E t \in Callers : Uncounted(WriteStep(t))
    \/ \E t \in Callers : Uncounted(Return(t))
    \/ \E core \in ExternalCores : Uncounted(ExternalWrite(core))

SpecConcurrent == InitConcurrent /\ [][NextConcurrent]_vars

(***************************************************************************)
(* C18: apply is not atomic against concurrent writers.  Nothing orders    *)
(* the writes of two applies or of an outside writer: every step of a run  *)
(* changes at most one file, and when two applies of different profiles    *)
(* have both returned Ok each file holds what one of the two profiles      *)
(* (or the outside writer) puts there, while the state as a whole need not *)
(* be the outcome of either order of the two applies: a core can hold one  *)
(* profile's scaling min with the other's scaling max.                     *)
(***************************************************************************)
C18_Cells == Files

C18_Alone(t) == apply(Unwrap(threads[t].p), before).fs

C18_InOrder(t, u) ==
    apply(Unwrap(threads[u].p), apply(Unwrap(threads[t].p), before).fs).fs

C18_BothReturnedOk ==
    \A t \in Callers : threads[t].at = "returned" /\ threads[t].res.ok

C18_EachFileFromOneProfile ==
    C18_BothReturnedOk =>
        \A alone \in {[t \in Callers |-> C18_Alone(t)]}, cell \in C18_Cells :
            \/ \E t \in Callers :
                  sysfs[cell[1]][cell[2]] = alone[t][cell[1]][cell[2]]
            \/ /\ cell[1] = "scaling_max_freq"
               /\ last.op = "external"
               /\ sysfs[cell[1]][cell[2]] = ExternalKHz

C18_OneFilePerStep ==
    Cardinality({cell \in C18_Cells :
                    sysfs'[cell[1]][cell[2]] # sysfs[cell[1]][cell[2]]}) <= 1

C18_NotAtomic == [](C18_EachFileFromOneProfile) /\ [][C18_OneFilePerStep]_vars

\* both applies returned Ok, no one else wrote, and core 0 holds the first
\* caller's scaling min with the second caller's scaling max, which neither
\* order of the two applies leaves
C18_Witness ==
    /\ C18_BothReturnedOk
    /\ last.op # "external"
    /\ sysfs # C18_InOrder(1, 2)
    /\ sysfs # C18_InOrder(2, 1)
    /\ sysfs.scaling_min_freq[0] = C18_Alone(1).scaling_min_freq[0]
    /\ sysfs.scaling_min_freq[0] # C18_Alone(2).scaling_min_freq[0]
    /\ sysfs.scaling_max_freq[0] = C18_Alone(2).scaling_max_freq[0]
    /\ sysfs.scaling_max_freq[0] # C18_Alone(1).scaling_max_freq[0]

(***************************************************************************)
(* SpecLimits: applies of profiles with every shape of bounds, to cores    *)
(* that start at the bottom, at the top or across the hardware range       *)
(***************************************************************************)
pinned == [custom EXCEPT !.name = "Pinned", !.max_freq_mhz = Some(1200)]
inverted ==
    [custom EXCEPT !.name = "Inverted", !.min_freq_mhz = Some(3000),
                   !.max_freq_mhz = Some(2000)]
beyond ==
    [custom EXCEPT !.name = "Beyond", !.min_freq_mhz = Some(200),
                   !.max_freq_mhz = Some(5000)]

LimitProfiles == Profiles \cup {pinned, inverted, beyond}

\* scaling_min_freq and scaling_max_freq as a core may hold them at first
StartLimits(hybrid, core) ==
    {<<HwMinKHz, HwMinKHz>>, <<HwMinKHz, HwMax(hybrid, core)>>,
     <<HwMax(hybrid, core), HwMax(hybrid, core)>>}

InitLimits ==
    /\ driver \in {"IntelPstate", "AcpiCpufreq"}
    /\ is_root = TRUE
    /\ overflow_checks = FALSE
    /\ faulty \in FaultSets({"scaling_min_freq", "scaling_max_freq"})
    /\ \E boost \in BoostFiles(driver), hybrid \in BOOLEAN :
       \E start \in [Cores -> UNION {StartLimits(hybrid, c) : c \in Cores}] :
          /\ \A c \in Cores : start[c] \in StartLimits(hybrid, c)
          /\ sysfs =
                [Machine(driver, [c \in Cores |-> {"performance", "powersave"}],
                         Cores, boost, Absent, hybrid)
                    EXCEPT !.scaling_min_freq = [c \in Cores |-> start[c][1]],
                           !.scaling_max_freq = [c \in Cores |-> start[c][2]]]
    /\ profiles = ProfileManager_new
    /\ threads = NoThreads
    /\ before = sysfs /\ last = NoCall /\ calls = 0

NextLimits ==
    \/ \E p \in LimitProfiles : Uncounted(Apply(p))
    \/ Uncounted(Repair)

SpecLimits == InitLimits /\ [][NextLimits]_vars

(***************************************************************************)
(* C19: when every core starts an apply with hardware min <= scaling min   *)
(* <= scaling max <= hardware max, and the profile's bounds (an absent one *)
(* counting as the hardware value) lie in that order within the hardware   *)
(* range, every core has scaling min <= scaling max after each single      *)
(* write of the apply.  The hardware limits are the ones apply reads, those*)
(* of core 0.  The code validates nothing: whatever bounds a profile       *)
(* names, an apply that nothing else stops returns Ok and leaves them in   *)
(* the files, inverted or outside the hardware range as they may be.       *)
(***************************************************************************)
C19_Bound(bound, hardware) == IF IsSome(bound) THEN Unwrap(bound) ELSE hardware

C19_Precondition ==
    /\ \A c \in Cores :
          /\ before.cpuinfo_min_freq[0] <= before.scaling_min_freq[c]
          /\ before.scaling_min_freq[c] <= before.scaling_max_freq[c]
          /\ before.scaling_max_freq[c] <= before.cpuinfo_max_freq[0]
    /\ HwMinMHz(before) <= C19_Bound(AppliedProfile.min_freq_mhz, HwMinMHz(before))
    /\ C19_Bound(AppliedProfile.min_freq_mhz, HwMinMHz(before))
          <= C19_Bound(AppliedProfile.max_freq_mhz, HwMaxMHz(before))
    /\ C19_Bound(AppliedProfile.max_freq_mhz, HwMaxMHz(before)) <= HwMaxMHz(before)

C19_OrderedAfter(k) ==
    \A fs \in {Replay(before, SubSeq(last.writes, 1, k))}, c \in Cores :
        fs.scaling_min_freq[c] <= fs.scaling_max_freq[c]

C19_NothingStops ==
    /\ faulty = {}
    /\ driver = "IntelPstate" \/ before.boost[0] # Absent

C19_MinNeverAboveMax ==
    last.op = "apply" =>
        /\ C19_Precondition => \A k \in 0 .. Len(last.writes) : C19_OrderedAfter(k)
        /\ C19_NothingStops =>
              /\ last.res.ok
              /\ \A c \in Cores :
                    /\ IsSome(AppliedProfile.min_freq_mhz) =>
                          sysfs.scaling_min_freq[c]
                              = Unwrap(AppliedProfile.min_freq_mhz) * 1000
                    /\ IsSome(AppliedProfile.max_freq_mhz) =>
                          sysfs.scaling_max_freq[c]
                              = Unwrap(AppliedProfile.max_freq_mhz) * 1000

\* a profile with a min bound applied to a machine where a core's scaling
\* max was below that bound: only the reset keeps min <= max on the way
C19_Witness ==
    /\ last.op = "apply" /\ last.res.ok
    /\ C19_Precondition
    /\ IsSome(AppliedProfile.min_freq_mhz)
    /\ \E c \in Cores :
          before.scaling_max_freq[c] < Unwrap(AppliedProfile.min_freq_mhz) * 1000

====
